---- MODULE Spec2Model ----
(***************************************************************************)
(* Y-maze randomizer: the scheduling engine of src/code.py (the desktop    *)
(* application) and src/modern-app/backend/main.py (the same functions     *)
(* behind an HTTP API).                                                    *)
(*                                                                         *)
(* Conventions.  An arm is 1, 2 or 3; Python's None is NoArm.  An animal   *)
(* is a record [AnimalID, Sex, Genotype, Cage]; the Tag column is carried  *)
(* through unread by every function and is left out.  A Python list is a   *)
(* sequence, a dict is a function; where the code iterates a dict or a     *)
(* set, the iteration order is given explicitly as a sequence.             *)
(***************************************************************************)
EXTENDS Naturals, Integers, Sequences, FiniteSets, TLC

\* ------------------------------------------------------------------------
\* Bounds of the model
\* ------------------------------------------------------------------------
MaxAnimals == 3
MaxPackAnimals == 6
MaxCageSize == 5
MaxTrials == 2
MaxSeqTrials == 5
MaxDays == 2
MaxRepeatAnimals == 4
MaxRepeatDays == 1
MaxApiAnimals == 2
MaxDupAnimals == 5
MaxRepeatDupAnimals == 3

\* ------------------------------------------------------------------------
\* Program constants
\* ------------------------------------------------------------------------
NoArm == 0
ARMS == <<1, 2, 3>>
ArmSet == {ARMS[k] : k \in 1..Len(ARMS)}
GENOTYPE_ORDER == <<"IL-17 KO", "C57Bl/6J">>
SEXES == <<"Male", "Female">>
CAGES == <<"A", "B", "C">>

\* ------------------------------------------------------------------------
\* Helpers for Python built-ins
\* ------------------------------------------------------------------------
Range(s) == {s[k] : k \in 1..Len(s)}

RECURSIVE SumSeq(_)
SumSeq(s) == IF s = <<>> THEN 0 ELSE s[1] + SumSeq(Tail(s))

Max2(a, b) == IF a >= b THEN a ELSE b
Min2(a, b) == IF a <= b THEN a ELSE b

\* list.count(x)
Count(s, x) == Cardinality({k \in 1..Len(s) : s[k] = x})

\* [F(k) for k in 1..n], built element by element
ListOf(n, F(_)) ==
    LET RECURSIVE build(_)
        build(k) == IF k = 0 THEN <<>> ELSE Append(build(k - 1), F(k))
    IN  build(n)

\* {k: F(k) for k in keys}, built entry by entry
DictOf(keys, F(_)) ==
    LET RECURSIVE build(_)
        build(k) == IF k = 0 THEN <<>>
                    ELSE (keys[k] :> F(keys[k])) @@ build(k - 1)
    IN  build(Len(keys))

\* [x for x in s if P(x)]
Filter(s, P(_)) == SelectSeq(s, P)

\* s[:i-1] + s[i:]  (Python items[:i] + items[i+1:], 1-based here)
RemoveAt(s, i) == SubSeq(s, 1, i - 1) \o SubSeq(s, i + 1, Len(s))

\* All orders a random.shuffle of s can leave behind.
RECURSIVE Shuffles(_)
Shuffles(s) ==
    IF s = <<>> THEN {<<>>}
    ELSE UNION {{<<s[i]>> \o p : p \in Shuffles(RemoveAt(s, i))} : i \in 1..Len(s)}

\* Python's min(iterable, key=...) returns the first element, in iteration
\* order, whose key is minimal.  Less(a, b) is the strict order of the keys.
FirstMin(s, Less(_, _)) ==
    s[CHOOSE i \in 1..Len(s) :
        /\ \A j \in 1..Len(s) : ~Less(s[j], s[i])
        /\ \A j \in 1..(i - 1) : Less(s[i], s[j])]

RECURSIVE zip_into(_, _, _, _)
zip_into(map, animals, arms, n) ==
    IF n = 0 THEN map
    ELSE (animals[n].AnimalID :> arms[n]) @@ zip_into(map, animals, arms, n - 1)

\* for animal, arm in zip(animals, arms): map[animal['AnimalID']] = arm
record_of(map, animals, arms) ==
    LET n == Min2(Len(animals), Len(arms))
        ids == {animals[k].AnimalID : k \in 1..n}
    IN  zip_into(map, animals, arms, n)

\* ------------------------------------------------------------------------
\* plan_cage_dp
\* ------------------------------------------------------------------------
\* Mutant: the learning exit arm is not taken out of the choices.
allowed_arms_any(forbid) == ARMS

\* tuple(sorted({1, 2, 3} - {forbid}))
allowed_arms(forbid) == Filter(ARMS, LAMBDA c : c # forbid)

\* allowed = [...] for the animals of one cage
allowed_of(cage_animals, learning_exit_map) ==
    ListOf(Len(cage_animals),
           LAMBDA k : allowed_arms(learning_exit_map[cage_animals[k].AnimalID]))

\* Mutant: the switch against the incoming arm is not charged.
dp_first_no_boundary(allowed0, prev_arm) ==
    DictOf(allowed0, LAMBDA c : [cost |-> 0, prev |-> NoArm])

\* first position: dp[0][c] = (cost0, None)
dp_first(allowed0, prev_arm) ==
    DictOf(allowed0,
           LAMBDA c : [cost |-> IF prev_arm = NoArm \/ c = prev_arm THEN 0 ELSE 1,
                       prev |-> NoArm])

\* The inner loop over dp[i-1].items(), in insertion order (keys), keeping
\* the first strictly smaller cost.  best_cost = -1 stands for None.
RECURSIVE scan_prev(_, _, _, _, _, _)
scan_prev(dp_prev, keys, k, c, best_cost, best_prev) ==
    IF k > Len(keys) THEN [cost |-> best_cost, prev |-> best_prev]
    ELSE LET c_prev == keys[k]
             cost_here == dp_prev[c_prev].cost + (IF c = c_prev THEN 0 ELSE 1)
         IN  IF best_cost = -1 \/ cost_here < best_cost
             THEN scan_prev(dp_prev, keys, k + 1, c, cost_here, c_prev)
             ELSE scan_prev(dp_prev, keys, k + 1, c, best_cost, best_prev)

\* propagate: dp[i] from dp[i-1]
dp_step(dp_prev, keys_prev, allowed_i) ==
    DictOf(allowed_i, LAMBDA c : scan_prev(dp_prev, keys_prev, 1, c, -1, NoArm))

\* dp[0..i-1] as a sequence of dicts
RECURSIVE dp_table(_, _, _)
dp_table(allowed, prev_arm, i) ==
    IF i = 1 THEN <<dp_first(allowed[1], prev_arm)>>
    ELSE LET t == dp_table(allowed, prev_arm, i - 1)
         IN  Append(t, dp_step(t[i - 1], allowed[i - 1], allowed[i]))

\* reconstruct sequence: colors[i-1] = dp[i][colors[i]][1]
RECURSIVE reconstruct(_, _, _)
reconstruct(dp, i, colors) ==
    IF i = 1 THEN colors
    ELSE reconstruct(dp, i - 1, <<dp[i][colors[1]].prev>> \o colors)

\* Mutant: the last position's first arm is taken, whatever its cost.
choose_end_first(dp_last, keys) == keys[1]

\* choose end with min cost: min(dp[-1], key=lambda c: dp[-1][c][0])
choose_end(dp_last, keys) ==
    FirstMin(keys, LAMBDA a, b : dp_last[a].cost < dp_last[b].cost)

plan_cage_dp(cage_animals, prev_arm, learning_exit_map) ==
    LET m == Len(cage_animals)
    IN  IF m = 0
        THEN [cost |-> 0, end |-> prev_arm, first |-> prev_arm, colors |-> <<>>]
        ELSE LET allowed == allowed_of(cage_animals, learning_exit_map)
                 dp == dp_table(allowed, prev_arm, m)
                 end_color == choose_end(dp[m], allowed[m])
                 colors == reconstruct(dp, m, <<end_color>>)
             IN  [cost |-> dp[m][end_color].cost, end |-> end_color,
                  first |-> colors[1], colors |-> colors]

\* ------------------------------------------------------------------------
\* build_nonlearning_plan_cage_packs
\* ------------------------------------------------------------------------
\* list(cages.keys()): the cages in first-seen order
RECURSIVE cage_names_of(_)
cage_names_of(animal_data) ==
    IF animal_data = <<>> THEN <<>>
    ELSE LET n == Len(animal_data)
             front == cage_names_of(SubSeq(animal_data, 1, n - 1))
             c == animal_data[n].Cage
         IN  IF c \in Range(front) THEN front ELSE Append(front, c)

\* Mutant: cages[a['Cage']] = [a] overwrites the list instead of appending.
group_animals_overwrite(animal_data) ==
    DictOf(cage_names_of(animal_data),
           LAMBDA c : LET own == Filter(animal_data, LAMBDA a : a.Cage = c)
                      IN  <<own[Len(own)]>>)

\* group_animals_by_cage_in_order: cage -> its animals, in roster order
group_animals_by_cage_in_order(animal_data) ==
    DictOf(cage_names_of(animal_data),
           LAMBDA c : Filter(animal_data, LAMBDA a : a.Cage = c))

\* plans[c][s] for every cage and every incoming arm
plans_of(animal_data, learning_exit_map) ==
    LET cages == group_animals_by_cage_in_order(animal_data)
    IN  DictOf(cage_names_of(animal_data),
               LAMBDA c : DictOf(ARMS,
                   LAMBDA s : plan_cage_dp(cages[c], s, learning_exit_map)))

\* The while loop of one (start_arm, first_cage) candidate.  `remaining` is
\* a Python set of cage names: min(remaining, key=...) returns the first
\* cheapest cage in the set's iteration order, which is the order of the
\* names in the hash table (set_order), not the roster order.
RECURSIVE greedy_loop(_, _, _, _, _, _, _)
greedy_loop(plans, set_order, remaining, current, prev_end, total_cost, seq) ==
    IF remaining = {} THEN [cost |-> total_cost, end |-> prev_end, seq |-> seq]
    ELSE LET cur == IF current # "" THEN current
                    ELSE FirstMin(Filter(set_order, LAMBDA ck : ck \in remaining),
                             LAMBDA a, b : plans[a][prev_end].cost
                                             < plans[b][prev_end].cost)
             plan == plans[cur][prev_end]
         IN  greedy_loop(plans, set_order, remaining \ {cur}, "", plan.end,
                         total_cost + plan.cost, Append(seq, <<cur, prev_end>>))

\* One candidate: its total cost with the wrap-around penalty, its cage
\* sequence and, per cage, the incoming arm whose plan was chosen.
greedy_candidate(plans, set_order, start_arm, first_cage) ==
    LET run == greedy_loop(plans, set_order, Range(set_order), first_cage,
                           start_arm, 0, <<>>)
    IN  [start_arm |-> start_arm,
         total_cost |-> run.cost + (IF run.end = start_arm THEN 0 ELSE 1),
         seq |-> run.seq]

\* Mutant: only day-start arm 1 is tried.
candidates_one_start(plans, cage_names, set_order) ==
    ListOf(Len(cage_names),
           LAMBDA k : greedy_candidate(plans, set_order, ARMS[1], cage_names[k]))

\* for start_arm in (1, 2, 3): for first_cage in cage_names: ...
candidates_of(plans, cage_names, set_order) ==
    LET n == Len(cage_names)
    IN  ListOf(Len(ARMS) * n,
               LAMBDA k : greedy_candidate(plans, set_order,
                              ARMS[((k - 1) \div n) + 1],
                              cage_names[((k - 1) % n) + 1]))

\* Mutant: total_cost > best_total keeps the dearest candidate.
best_solution_dearest(cands) ==
    FirstMin(cands, LAMBDA a, b : a.total_cost > b.total_cost)

\* if best_total is None or total_cost < best_total: keep the first minimum
best_solution_of(cands) ==
    FirstMin(cands, LAMBDA a, b : a.total_cost < b.total_cost)

\* Build final output: walk the winning cage sequence
RECURSIVE walk_solution(_, _, _, _)
walk_solution(cages, plans, seq, k) ==
    IF k > Len(seq) THEN [animals |-> <<>>, arms |-> <<>>]
    ELSE LET rest == walk_solution(cages, plans, seq, k + 1)
             c == seq[k][1]
         IN  [animals |-> cages[c] \o rest.animals,
              arms |-> plans[c][seq[k][2]].colors \o rest.arms]

build_nonlearning_plan_cage_packs(animal_data, learning_exit_map, set_order) ==
    LET cages == group_animals_by_cage_in_order(animal_data)
        cage_names == cage_names_of(animal_data)
        plans == plans_of(animal_data, learning_exit_map)
        best == best_solution_of(candidates_of(plans, cage_names, set_order))
        out == walk_solution(cages, plans, best.seq, 1)
    IN  [ordered_animals |-> out.animals,
         per_animal_exit |-> record_of(<<>>, out.animals, out.arms),
         best_total |-> best.total_cost,
         cage_sequence |-> ListOf(Len(best.seq), LAMBDA k : best.seq[k][1])]

\* ------------------------------------------------------------------------
\* generate_pseudorandom_sequence
\* ------------------------------------------------------------------------
\* Mutant: two equal values in a row are refused already.
valid_no_pairs(seq) ==
    LET n == Len(seq)
    IN  n < 2 \/ seq[n] # seq[n - 1]

\* def valid(seq)
valid(seq) ==
    LET n == Len(seq)
    IN  n < 3 \/ ~(seq[n] = seq[n - 1] /\ seq[n - 1] = seq[n - 2])

\* def backtrack(cur, items); <<NoArm>> stands for None.  backtrack_from is
\* the for loop from index i on.
RECURSIVE backtrack_from(_, _, _, _)
backtrack(cur, items, avoid_first) ==
    IF items = <<>> THEN cur ELSE backtrack_from(cur, items, avoid_first, 1)
\* Mutant: the first candidate that keeps the sequence valid is final; a
\* dead end further down is returned instead of trying the next candidate.
RECURSIVE backtrack_from_commit(_, _, _, _)
backtrack_from_commit(cur, items, avoid_first, i) ==
    IF i > Len(items) THEN <<NoArm>>
    ELSE LET cand == items[i]
             new == Append(cur, cand)
         IN  IF avoid_first # NoArm /\ Len(cur) = 0 /\ cand = avoid_first
             THEN backtrack_from_commit(cur, items, avoid_first, i + 1)
             ELSE IF valid(new)
                  THEN backtrack(new, RemoveAt(items, i), avoid_first)
                  ELSE backtrack_from_commit(cur, items, avoid_first, i + 1)

backtrack_from(cur, items, avoid_first, i) ==
    IF i > Len(items) THEN <<NoArm>>
    ELSE LET cand == items[i]
             new == Append(cur, cand)
         IN  IF avoid_first # NoArm /\ Len(cur) = 0 /\ cand = avoid_first
             THEN backtrack_from(cur, items, avoid_first, i + 1)
             ELSE IF valid(new)
                  THEN LET out == backtrack(new, RemoveAt(items, i), avoid_first)
                       IN  IF out # <<NoArm>> THEN out
                           ELSE backtrack_from(cur, items, avoid_first, i + 1)
                  ELSE backtrack_from(cur, items, avoid_first, i + 1)

\* Mutant: an odd n_trials adds one to both counts.
pool_of_both_extra(n_trials, armA, armB, extraA) ==
    LET half == n_trials \div 2
        extra == IF n_trials % 2 = 1 THEN 1 ELSE 0
    IN  ListOf(half + extra, LAMBDA k : armA) \o ListOf(half + extra, LAMBDA k : armB)

\* pool = [armA] * countA + [armB] * countB before the shuffle; extraA is
\* the outcome of random.random() < 0.5 (read only when n_trials is odd).
pool_of(n_trials, armA, armB, extraA) ==
    LET half == n_trials \div 2
        odd == n_trials % 2 = 1
        countA == half + (IF odd /\ extraA THEN 1 ELSE 0)
        countB == half + (IF odd /\ ~extraA THEN 1 ELSE 0)
    IN  ListOf(countA, LAMBDA k : armA) \o ListOf(countB, LAMBDA k : armB)

\* Every pool the coin and random.shuffle can produce.
shuffled_pools(n_trials, armA, armB) ==
    UNION {Shuffles(pool_of(n_trials, armA, armB, x)) : x \in BOOLEAN}

\* seq = backtrack([], pool); return seq if seq else pool
sequence_from_pool(pool, avoid_first) ==
    LET seq == backtrack(<<>>, pool, avoid_first)
    IN  IF seq # <<NoArm>> /\ seq # <<>> THEN seq ELSE pool

\* ------------------------------------------------------------------------
\* assign_balanced_exit_arms
\* ------------------------------------------------------------------------
\* key = (animal['Genotype'], animal['Sex'], animal['Cage'])
group_key(animal) == <<animal.Genotype, animal.Sex, animal.Cage>>

\* The keys of `groupings` in insertion (first-seen) order.
RECURSIVE group_keys_of(_)
group_keys_of(animal_data) ==
    IF animal_data = <<>> THEN <<>>
    ELSE LET n == Len(animal_data)
             front == group_keys_of(SubSeq(animal_data, 1, n - 1))
             key == group_key(animal_data[n])
         IN  IF key \in Range(front) THEN front ELSE Append(front, key)

\* groupings.items(): each group's animals in roster order
groupings_of(animal_data) ==
    LET keys == group_keys_of(animal_data)
    IN  ListOf(Len(keys),
               LAMBDA k : Filter(animal_data, LAMBDA a : group_key(a) = keys[k]))

\* random.shuffle(animals) for every group, then random.shuffle(groups)
RECURSIVE shuffle_each(_)
shuffle_each(gs) ==
    IF gs = <<>> THEN {<<>>}
    ELSE {<<h>> \o t : h \in Shuffles(gs[1]), t \in shuffle_each(Tail(gs))}

shuffled_groups(animal_data) ==
    UNION {Shuffles(g) : g \in shuffle_each(groupings_of(animal_data))}

\* Mutant: the remainder is dropped, the targets sum to less than N.
target_without_remainder(N) ==
    (1 :> N \div 3) @@ (2 :> N \div 3) @@ (3 :> N \div 3)

\* Global targets
target_of(N) ==
    LET base == N \div 3
        remainder == N % 3
    IN  (1 :> base + (IF remainder >= 1 THEN 1 ELSE 0))
        @@ (2 :> base + (IF remainder >= 2 THEN 1 ELSE 0))
        @@ (3 :> base)

\* Mutant: the arm at the offset, repeated; no cycling.
seq_from_offset_stuck(m, offset) == ListOf(m, LAMBDA j : (offset % 3) + 1)

\* def seq_from_offset(m, offset)
seq_from_offset(m, offset) == ListOf(m, LAMBDA j : (((j - 1) + offset) % 3) + 1)

\* def score_sequence(seq, rem): the pair (over, prefer)
score_sequence(seq, rem) ==
    LET over == SumSeq(ListOf(Len(ARMS),
                    LAMBDA k : Max2(0, Count(seq, ARMS[k]) - rem[ARMS[k]])))
        prefer == 0 - SumSeq(ListOf(Len(ARMS),
                    LAMBDA k : Min2(Count(seq, ARMS[k]), rem[ARMS[k]])))
    IN  <<over, prefer>>

\* Python's order on pairs
tuple_less(x, y) == x[1] < y[1] \/ (x[1] = y[1] /\ x[2] < y[2])

\* best_offset, best_seq = min(candidates, key=...)
best_rotation(m, rem) ==
    LET candidates == <<seq_from_offset(m, 0), seq_from_offset(m, 1),
                        seq_from_offset(m, 2)>>
    IN  FirstMin(candidates,
            LAMBDA x, y : tuple_less(score_sequence(x, rem), score_sequence(y, rem)))

\* Mutant: min instead of max, the arm of least remaining quota.
substitute_arms_min(rem) == {a \in ArmSet : \A b \in ArmSet : rem[a] <= rem[b]}

\* max((1, 2, 3), key=lambda a: (remaining[a], random.random())): an arm of
\* largest remaining quota, any of them on a tie
substitute_arms(rem) == {a \in ArmSet : \A b \in ArmSet : rem[b] <= rem[a]}

\* ------------------------------------------------------------------------
\* State
\* ------------------------------------------------------------------------
VARIABLES
    pc,             \* where the run is
    animal_data,    \* the parsed roster
    groups,         \* assign_balanced_exit_arms: the shuffled groups
    gi,             \*   index of the group being processed
    best_seq,       \*   the rotation chosen for it
    adjusted,       \*   the arms given to its animals so far
    remaining,      \*   remaining quota per arm
    exit_arm_map,   \*   AnimalID -> learning exit arm
    learning_days, reversal_days, n_trials,
    set_order,      \* iteration order of set(cage_names) in this process
    d,              \* generate_day_tables: day index
    animals_today, per_day_exit,
    rows,           \*   rows of the day being built
    day_tables,     \*   finished days
    call, pool, ret, \* a direct call of one function: arguments, pool, result
    twin            \* the same generation in a second process: its
                    \*   set_order, animals_today, per_day_exit, rows, day_tables

vars == <<pc, animal_data, groups, gi, best_seq, adjusted, remaining,
          exit_arm_map, learning_days, reversal_days, n_trials, set_order, d,
          animals_today, per_day_exit, rows, day_tables, call, pool, ret, twin>>

balancer_locals == <<groups, gi, best_seq, adjusted, remaining>>
request_vars == <<learning_days, reversal_days, n_trials, set_order>>
day_vars == <<d, animals_today, per_day_exit, rows, day_tables>>
call_vars == <<call, pool, ret>>

\* ------------------------------------------------------------------------
\* Inputs
\* ------------------------------------------------------------------------
animal_of(i, g, s, c) == [AnimalID |-> i, Sex |-> s, Genotype |-> g, Cage |-> c]

\* Genotype, sex and cage labels are only compared for equality (and the
\* cage names hashed: set_order), so a roster is taken with its cages, and
\* its (genotype, sex) pairs, labelled in order of first appearance.
RECURSIVE first_seen(_)
first_seen(labels) ==
    IF labels = <<>> THEN <<>>
    ELSE LET n == Len(labels)
             front == first_seen(SubSeq(labels, 1, n - 1))
         IN  IF labels[n] \in Range(front) THEN front ELSE Append(front, labels[n])

KINDS == <<<<GENOTYPE_ORDER[1], SEXES[1]>>, <<GENOTYPE_ORDER[1], SEXES[2]>>,
           <<GENOTYPE_ORDER[2], SEXES[1]>>, <<GENOTYPE_ORDER[2], SEXES[2]>>>>

first_seen_labels(roster) ==
    LET names == cage_names_of(roster)
        kinds == first_seen(ListOf(Len(roster),
                     LAMBDA k : <<roster[k].Genotype, roster[k].Sex>>))
    IN  /\ names = SubSeq(CAGES, 1, Len(names))
        /\ kinds = SubSeq(KINDS, 1, Len(kinds))

\* parse_animal_data copies the AnimalID column as it stands and nothing
\* checks that the IDs differ (nor does AnimalInput in the backend), so two
\* rows may carry the same AnimalID. IDs are only compared for equality
\* (dictionary keys), so an ID column is taken with its IDs numbered in
\* order of first appearance.
id_columns(n) ==
    {g \in [1..n -> 1..n] :
        LET seen == first_seen(g) IN seen = ListOf(Len(seen), LAMBDA k : k)}

\* The ID column of n rows that all differ.
unique_id_column(n) == [i \in 1..n |-> i]

\* ID columns of the larger rosters: any column up to m rows, beyond that
\* the column of n different IDs.
id_columns_upto(n, m) ==
    IF n <= m THEN id_columns(n) ELSE {unique_id_column(n)}

\* Rosters of n animals, attributes drawn from attrs, ID column from ids.
rosters_of(n, attrs, ids) ==
    {[i \in 1..n |-> animal_of(g[i], f[i][1], f[i][2], f[i][3])] :
        f \in [1..n -> attrs], g \in ids}

\* Rosters of the whole application: every genotype, sex and cage.
Rosters ==
    {r \in UNION {rosters_of(n, Range(GENOTYPE_ORDER) \X Range(SEXES) \X Range(CAGES),
                             id_columns(n)) :
                    n \in 0..MaxAnimals} : first_seen_labels(r)}

\* Larger rosters of one genotype and sex, where the groups are the cages.
PackRosters ==
    {r \in UNION {rosters_of(n, {GENOTYPE_ORDER[1]} \X {SEXES[1]} \X Range(CAGES),
                             id_columns_upto(n, MaxDupAnimals)) :
                    n \in 1..MaxPackAnimals} : first_seen_labels(r)}

no_call == <<>>

InitCommon ==
    /\ groups = <<>> /\ gi = 0 /\ best_seq = <<>> /\ adjusted = <<>>
    /\ remaining = [a \in ArmSet |-> 0]
    /\ exit_arm_map = <<>>
    /\ learning_days = 0 /\ reversal_days = 0 /\ n_trials = 0
    /\ set_order = <<>>
    /\ d = 0 /\ animals_today = <<>> /\ per_day_exit = <<>>
    /\ rows = <<>> /\ day_tables = <<>>
    /\ pool = <<>> /\ ret = <<>>
    /\ twin = <<>>

Init ==
    /\ pc = "idle"
    /\ animal_data \in Rosters
    /\ call = no_call
    /\ InitCommon

\* ------------------------------------------------------------------------
\* on_generate and assign_balanced_exit_arms
\* ------------------------------------------------------------------------
\* on_generate: if not animal_data: report and return
reject_empty ==
    /\ pc = "idle"
    /\ animal_data = <<>>
    /\ pc' = "rejected"
    /\ UNCHANGED <<animal_data, balancer_locals, exit_arm_map, request_vars,
                   day_vars, call_vars, twin>>

\* assign_balanced_exit_arms, up to the loop: group, shuffle, targets
group_and_shuffle ==
    /\ pc = "idle"
    /\ animal_data # <<>>
    /\ groups' \in shuffled_groups(animal_data)
    /\ remaining' = target_of(Len(animal_data))
    /\ exit_arm_map' = <<>>
    /\ gi' = 1
    /\ pc' = "group"
    /\ UNCHANGED <<animal_data, best_seq, adjusted, request_vars, day_vars, call_vars, twin>>

\* for _, animals in groups: pick the rotation
choose_rotation ==
    /\ pc = "group"
    /\ gi <= Len(groups)
    /\ best_seq' = best_rotation(Len(groups[gi]), remaining)
    /\ adjusted' = <<>>
    /\ pc' = "adjust"
    /\ UNCHANGED <<animal_data, groups, gi, remaining, exit_arm_map,
                   request_vars, day_vars, call_vars, twin>>

\* for arm in best_seq: one iteration
adjust_arm ==
    /\ pc = "adjust"
    /\ Len(adjusted) < Len(best_seq)
    /\ LET arm == best_seq[Len(adjusted) + 1]
       IN  IF remaining[arm] > 0
           THEN /\ adjusted' = Append(adjusted, arm)
                /\ remaining' = [remaining EXCEPT ![arm] = @ - 1]
           ELSE \E alt \in substitute_arms(remaining) :
                    /\ adjusted' = Append(adjusted, alt)
                    /\ remaining' = [remaining EXCEPT ![alt] = @ - 1]
    /\ UNCHANGED <<pc, animal_data, groups, gi, best_seq, exit_arm_map,
                   request_vars, day_vars, call_vars, twin>>

record_group ==
    /\ pc = "adjust"
    /\ Len(adjusted) = Len(best_seq)
    /\ exit_arm_map' = record_of(exit_arm_map, groups[gi], adjusted)
    /\ gi' = gi + 1
    /\ pc' = "group"
    /\ UNCHANGED <<animal_data, groups, best_seq, adjusted, remaining,
                   request_vars, day_vars, call_vars, twin>>

\* return exit_arm_map: the locals go out of scope
return_exit_arm_map ==
    /\ pc = "group"
    /\ gi > Len(groups)
    /\ pc' = "assigned"
    /\ groups' = <<>> /\ gi' = 0 /\ best_seq' = <<>> /\ adjusted' = <<>>
    /\ UNCHANGED <<animal_data, remaining, exit_arm_map, request_vars,
                   day_vars, call_vars, twin>>

assign_balanced_exit_arms ==
    \/ group_and_shuffle
    \/ choose_rotation
    \/ adjust_arm
    \/ record_group
    \/ return_exit_arm_map

\* ------------------------------------------------------------------------
\* generate_day_tables
\* ------------------------------------------------------------------------
\* The orders in which this process can iterate set(cage_names): the hash
\* of a string differs from one process to the next.
set_orders(animal_data_) == Shuffles(cage_names_of(animal_data_))

\* generate_day_tables is called with the three integers on_generate has
\* read and validated (days >= 0, trials > 0).
generate_day_tables_begin ==
    /\ pc = "assigned"
    /\ learning_days' \in 0..MaxDays
    /\ reversal_days' \in 0..(MaxDays - learning_days')
    /\ n_trials' \in 1..MaxTrials
    /\ set_order' \in set_orders(animal_data)
    /\ d' = 0
    /\ day_tables' = <<>>
    /\ rows' = <<>>
    /\ pc' = IF learning_days' + reversal_days' <= 0 THEN "done" ELSE "day"
    /\ UNCHANGED <<animal_data, balancer_locals, exit_arm_map, animals_today,
                   per_day_exit, call_vars, twin>>

\* Mutant: d <= learning_days, one more learning day.
in_learning_le(d_, learning_days_) == d_ <= learning_days_

\* in_learning = d < learning_days
in_learning(d_, learning_days_) == d_ < learning_days_

\* base_order_animals = list(animal_data): a copy made once, before the loop
base_order_animals(animal_data_, animals_today_) == animal_data_

\* Mutant: the learning day is handed to the cage-pack optimizer too.
learning_day_packed(base, exit_arm_map_, set_order_) ==
    build_nonlearning_plan_cage_packs(base, exit_arm_map_, set_order_)

\* if in_learning: animals_today = base_order_animals;
\*                 per_day_exit = {a['AnimalID']: exit_arm_map[a['AnimalID']] ...}
learning_day(base, exit_arm_map_, set_order_) ==
    [ordered_animals |-> base,
     per_animal_exit |-> [aid \in {base[k].AnimalID : k \in 1..Len(base)} |->
                             exit_arm_map_[aid]]]

\* Mutant: the optimizer is handed the previous day's exit arms, not the
\* learning exit arms.
reversal_day_from_previous(base, exit_arm_map_, per_day_exit_, set_order_) ==
    build_nonlearning_plan_cage_packs(base,
        IF per_day_exit_ = <<>> THEN exit_arm_map_ ELSE per_day_exit_, set_order_)

\* else: animals_today, per_day_exit =
\*           build_nonlearning_plan_cage_packs(base_order_animals, exit_arm_map)
reversal_day(base, exit_arm_map_, per_day_exit_, set_order_) ==
    build_nonlearning_plan_cage_packs(base, exit_arm_map_, set_order_)

\* for d in range(total_days): order and exit arms of the day
begin_day ==
    /\ pc = "day"
    /\ d < learning_days + reversal_days
    /\ \E base \in {base_order_animals(animal_data, animals_today)} :
          \/ /\ in_learning(d, learning_days)
             /\ \E plan \in {learning_day(base, exit_arm_map, set_order)} :
                   /\ animals_today' = plan.ordered_animals
                   /\ per_day_exit' = plan.per_animal_exit
          \/ /\ ~in_learning(d, learning_days)
             /\ \E plan \in {reversal_day(base, exit_arm_map, per_day_exit, set_order)} :
                   /\ animals_today' = plan.ordered_animals
                   /\ per_day_exit' = plan.per_animal_exit
    /\ rows' = <<>>
    /\ pc' = "rows"
    /\ UNCHANGED <<animal_data, balancer_locals, exit_arm_map, request_vars, d,
                   day_tables, call_vars, twin>>

\* Mutant: del other[exit_arm_today % 3] removes by position.
other_arms_pop(exit_arm_today) == RemoveAt(ARMS, (exit_arm_today % 3) + 1)

\* other = [1, 2, 3]; other.remove(exit_arm_today)
other_arms(exit_arm_today) == Filter(ARMS, LAMBDA a : a # exit_arm_today)

\* One row: the animal's columns, today's exit arm and the start arms.
row_of(animal, exit_arm_today, seq) ==
    [AnimalID |-> animal.AnimalID, Sex |-> animal.Sex, Genotype |-> animal.Genotype,
     Cage |-> animal.Cage, ExitArm |-> exit_arm_today, trials |-> seq]

\* for animal in animals_today: one row
build_row ==
    /\ pc = "rows"
    /\ Len(rows) < Len(animals_today)
    /\ LET animal == animals_today[Len(rows) + 1]
           aid == animal.AnimalID
           exit_arm_today == per_day_exit[aid]
           other == other_arms(exit_arm_today)
           avoid_first == IF in_learning(d, learning_days) THEN exit_arm_today
                          ELSE exit_arm_map[aid]
       IN  \E p \in shuffled_pools(n_trials, other[1], other[2]) :
               rows' = Append(rows, row_of(animal, exit_arm_today,
                                           sequence_from_pool(p, avoid_first)))
    /\ UNCHANGED <<pc, animal_data, balancer_locals, exit_arm_map, request_vars, d,
                   animals_today, per_day_exit, day_tables, call_vars, twin>>

\* One finished day: its number, its phase and its rows.
day_table(d_, learning_days_, rows_) ==
    [day |-> d_ + 1,
     type |-> IF in_learning(d_, learning_days_) THEN "Learning" ELSE "Reversal",
     rows |-> rows_]

\* day_tables.append(...)
end_day ==
    /\ pc = "rows"
    /\ Len(rows) = Len(animals_today)
    /\ day_tables' = Append(day_tables, day_table(d, learning_days, rows))
    /\ d' = d + 1
    /\ pc' = "day"
    /\ UNCHANGED <<animal_data, balancer_locals, exit_arm_map, request_vars,
                   animals_today, per_day_exit, rows, call_vars, twin>>

\* return day_tables
return_day_tables ==
    /\ pc = "day"
    /\ d = learning_days + reversal_days
    /\ pc' = "done"
    /\ UNCHANGED <<animal_data, balancer_locals, exit_arm_map, request_vars,
                   day_vars, call_vars, twin>>

generate_day_tables ==
    \/ generate_day_tables_begin
    \/ begin_day
    \/ build_row
    \/ end_day
    \/ return_day_tables

Next ==
    \/ reject_empty
    \/ assign_balanced_exit_arms
    \/ generate_day_tables

Spec == Init /\ [][Next]_vars

\* ------------------------------------------------------------------------
\* The balancer followed by one reversal-day plan, on rosters of whole cages
\* ------------------------------------------------------------------------
InitPacks ==
    /\ pc = "idle"
    /\ animal_data \in PackRosters
    /\ call = no_call
    /\ InitCommon

\* animals_today, per_day_exit = build_nonlearning_plan_cage_packs(...)
plan_packs ==
    /\ pc = "assigned"
    /\ \E order \in set_orders(animal_data) :
          /\ set_order' = order
          /\ ret' = build_nonlearning_plan_cage_packs(animal_data, exit_arm_map, order)
    /\ pc' = "planned"
    /\ UNCHANGED <<animal_data, balancer_locals, exit_arm_map, learning_days,
                   reversal_days, n_trials, day_vars, call, pool, twin>>

NextPacks ==
    \/ assign_balanced_exit_arms
    \/ plan_packs

SpecPacks == InitPacks /\ [][NextPacks]_vars

\* ------------------------------------------------------------------------
\* plan_cage_dp called on one cage
\* ------------------------------------------------------------------------
\* One cage of animals with the given ID column, in order.
cage_of(ids) ==
    ListOf(Len(ids), LAMBDA k : animal_of(ids[k], GENOTYPE_ORDER[1], SEXES[1], CAGES[1]))

InitPlan ==
    /\ pc = "call"
    /\ animal_data = <<>>
    /\ \E m \in 0..MaxCageSize :
          \E ids \in id_columns(m) :
              call \in [cage_animals : {cage_of(ids)},
                        prev_arm : {NoArm} \cup ArmSet,
                        learning_exit_map : [Range(ids) -> ArmSet]]
    /\ InitCommon

call_plan_cage_dp ==
    /\ pc = "call"
    /\ ret' = plan_cage_dp(call.cage_animals, call.prev_arm, call.learning_exit_map)
    /\ pc' = "returned"
    /\ UNCHANGED <<animal_data, balancer_locals, exit_arm_map, request_vars,
                   day_vars, call, pool, twin>>

NextPlan == call_plan_cage_dp

SpecPlan == InitPlan /\ [][NextPlan]_vars

\* ------------------------------------------------------------------------
\* generate_pseudorandom_sequence called on its own
\* ------------------------------------------------------------------------
InitSeq ==
    /\ pc = "call"
    /\ animal_data = <<>>
    /\ call \in {c \in [n_trials : 0..MaxSeqTrials, armA : ArmSet, armB : ArmSet,
                        avoid_first : {NoArm} \cup ArmSet] : c.armA # c.armB}
    /\ InitCommon

\* the coin, the pool and random.shuffle(pool)
shuffle_pool ==
    /\ pc = "call"
    /\ pool' \in shuffled_pools(call.n_trials, call.armA, call.armB)
    /\ pc' = "search"
    /\ UNCHANGED <<animal_data, balancer_locals, exit_arm_map, request_vars,
                   day_vars, call, ret, twin>>

\* seq = backtrack([], pool); return seq if seq else pool
search_returns ==
    /\ pc = "search"
    /\ LET seq == backtrack(<<>>, pool, call.avoid_first)
       IN  \/ /\ seq # <<NoArm>> /\ seq # <<>>
              /\ ret' = seq
              /\ pc' = "found"
           \/ /\ ~(seq # <<NoArm>> /\ seq # <<>>)
              /\ ret' = pool
              /\ pc' = "fallback"
    /\ UNCHANGED <<animal_data, balancer_locals, exit_arm_map, request_vars,
                   day_vars, call, pool, twin>>

NextSeq ==
    \/ shuffle_pool
    \/ search_returns

SpecSeq == InitSeq /\ [][NextSeq]_vars

\* ------------------------------------------------------------------------
\* generate_pseudorandom_sequence, called on its own or for a day table
\* ------------------------------------------------------------------------
\* The generator is reached two ways: called with any arguments, or by
\* generate_day_tables for each row with the arguments the row fixes
\* (the two arms other than the day's exit arm, and as avoid_first the
\* day's exit arm on a learning day, the learning exit arm on a reversal
\* day). Both are runs of this specification.
InitTrials == Init \/ InitSeq

NextTrials ==
    \/ Next
    \/ NextSeq

SpecTrials == InitTrials /\ [][NextTrials]_vars

\* ------------------------------------------------------------------------
\* The same generation, with the same explicit seed, in two processes
\* ------------------------------------------------------------------------
\* random.seed(seed) fixes the stream of random numbers, so both processes
\* draw the same values at the same calls: the balancer's shuffles and
\* tie-breaks (one exit_arm_map for both), and for the k-th call of
\* generate_pseudorandom_sequence the same coin and the same permutation of
\* positions from random.shuffle. What seeding does not fix is the hash of
\* a string, hence the order in which each process iterates set(cage_names).
RepeatRosters ==
    {r \in UNION {rosters_of(n, {GENOTYPE_ORDER[1]} \X {SEXES[1]} \X Range(CAGES),
                             id_columns_upto(n, MaxRepeatDupAnimals)) :
                    n \in 1..MaxRepeatAnimals} : first_seen_labels(r)}

InitRepeat ==
    /\ pc = "idle"
    /\ animal_data \in RepeatRosters
    /\ call = no_call
    /\ InitCommon

\* What one call of generate_pseudorandom_sequence reads from the stream.
draws(n_trials_) ==
    [extraA : BOOLEAN, perm : Shuffles(ListOf(n_trials_, LAMBDA k : k))]

\* pool after the coin and random.shuffle(pool), for given draws
drawn_pool(n_trials_, armA, armB, draw) ==
    LET items == pool_of(n_trials_, armA, armB, draw.extraA)
    IN  ListOf(Len(items), LAMBDA k : items[draw.perm[k]])

\* The row of one animal, its start arms made from the given draws.
drawn_row(animal, per_day_exit_, exit_arm_map_, d_, learning_days_, n_trials_, draw) ==
    LET aid == animal.AnimalID
        exit_arm_today == per_day_exit_[aid]
        other == other_arms(exit_arm_today)
        avoid_first == IF in_learning(d_, learning_days_) THEN exit_arm_today
                       ELSE exit_arm_map_[aid]
    IN  row_of(animal, exit_arm_today,
               sequence_from_pool(drawn_pool(n_trials_, other[1], other[2], draw),
                                  avoid_first))

\* on_generate in both processes: the same three integers, each process
\* with its own set iteration order
repeat_begin ==
    /\ pc = "assigned"
    /\ learning_days' \in 0..MaxRepeatDays
    /\ reversal_days' \in 0..(MaxRepeatDays - learning_days')
    /\ n_trials' \in 1..MaxTrials
    /\ set_order' \in set_orders(animal_data)
    /\ \E other_order \in set_orders(animal_data) :
          twin' = [set_order |-> other_order, animals_today |-> <<>>,
                   per_day_exit |-> <<>>, rows |-> <<>>, day_tables |-> <<>>]
    /\ d' = 0
    /\ day_tables' = <<>>
    /\ rows' = <<>>
    /\ pc' = IF learning_days' + reversal_days' <= 0 THEN "done" ELSE "day"
    /\ UNCHANGED <<animal_data, balancer_locals, exit_arm_map, animals_today,
                   per_day_exit, call_vars>>

repeat_begin_day ==
    /\ pc = "day"
    /\ d < learning_days + reversal_days
    /\ \E mine \in {base_order_animals(animal_data, animals_today)},
          theirs \in {base_order_animals(animal_data, twin.animals_today)} :
          \/ /\ in_learning(d, learning_days)
             /\ \E plan \in {learning_day(mine, exit_arm_map, set_order)},
                   other \in {learning_day(theirs, exit_arm_map, twin.set_order)} :
                   /\ animals_today' = plan.ordered_animals
                   /\ per_day_exit' = plan.per_animal_exit
                   /\ twin' = [twin EXCEPT !.animals_today = other.ordered_animals,
                                           !.per_day_exit = other.per_animal_exit,
                                           !.rows = <<>>]
          \/ /\ ~in_learning(d, learning_days)
             /\ \E plan \in {reversal_day(mine, exit_arm_map, per_day_exit, set_order)},
                   other \in {reversal_day(theirs, exit_arm_map, twin.per_day_exit,
                                           twin.set_order)} :
                   /\ animals_today' = plan.ordered_animals
                   /\ per_day_exit' = plan.per_animal_exit
                   /\ twin' = [twin EXCEPT !.animals_today = other.ordered_animals,
                                           !.per_day_exit = other.per_animal_exit,
                                           !.rows = <<>>]
    /\ rows' = <<>>
    /\ pc' = "rows"
    /\ UNCHANGED <<animal_data, balancer_locals, exit_arm_map, request_vars, d,
                   day_tables, call_vars>>

\* the k-th row of the day in both processes, from the same draws
repeat_build_row ==
    /\ pc = "rows"
    /\ Len(rows) < Len(animals_today)
    /\ \E draw \in draws(n_trials) :
          LET process == <<[animals_today |-> animals_today,
                            per_day_exit |-> per_day_exit],
                           [animals_today |-> twin.animals_today,
                            per_day_exit |-> twin.per_day_exit]>>
              row == ListOf(2, LAMBDA p :
                         drawn_row(process[p].animals_today[Len(rows) + 1],
                                   process[p].per_day_exit, exit_arm_map,
                                   d, learning_days, n_trials, draw))
          IN  /\ rows' = Append(rows, row[1])
              /\ twin' = [twin EXCEPT !.rows = Append(@, row[2])]
    /\ UNCHANGED <<pc, animal_data, balancer_locals, exit_arm_map, request_vars, d,
                   animals_today, per_day_exit, day_tables, call_vars>>

repeat_end_day ==
    /\ pc = "rows"
    /\ Len(rows) = Len(animals_today)
    /\ day_tables' = Append(day_tables, day_table(d, learning_days, rows))
    /\ twin' = [twin EXCEPT !.day_tables =
                    Append(@, day_table(d, learning_days, twin.rows))]
    /\ d' = d + 1
    /\ pc' = "day"
    /\ UNCHANGED <<animal_data, balancer_locals, exit_arm_map, request_vars,
                   animals_today, per_day_exit, rows, call_vars>>

NextRepeat ==
    \/ assign_balanced_exit_arms
    \/ repeat_begin
    \/ repeat_begin_day
    \/ repeat_build_row
    \/ repeat_end_day
    \/ return_day_tables

SpecRepeat == InitRepeat /\ [][NextRepeat]_vars

\* ------------------------------------------------------------------------
\* The backend endpoint generate_schedule
\* ------------------------------------------------------------------------
\* Rosters a request can carry: AnimalInput records, possibly none.
ApiRosters ==
    {r \in UNION {rosters_of(n, Range(GENOTYPE_ORDER) \X Range(SEXES) \X Range(CAGES),
                             id_columns(n)) :
                    n \in 0..MaxApiAnimals} : first_seen_labels(r)}

\* What load_example_animals can return: the records of the bundled CSV
\* file, whose content is not part of the code.
ExampleRosters == ApiRosters

InitApi ==
    /\ pc = "request"
    /\ animal_data = <<>>
    /\ call \in [animals : ApiRosters, use_example : BOOLEAN]
    /\ InitCommon

\* generate_schedule, up to the roster check: the example data replace the
\* request's animals when use_example is set or the list is empty
load_animals ==
    /\ pc = "request"
    /\ \/ /\ call.use_example \/ call.animals = <<>>
          /\ \/ /\ animal_data' = animal_data      \* FileNotFoundError: 400
                /\ pc' = "rejected"
             \/ \E example \in ExampleRosters :
                    /\ animal_data' = example
                    /\ pc' = IF example = <<>> THEN "rejected" ELSE "idle"
       \/ /\ ~(call.use_example \/ call.animals = <<>>)
          /\ animal_data' = call.animals
          /\ pc' = IF call.animals = <<>> THEN "rejected" ELSE "idle"
    /\ UNCHANGED <<balancer_locals, exit_arm_map, request_vars, day_vars, call_vars,
                   twin>>

\* generate_day_tables called with the request's validated integers:
\* learning_days > 0, reversal_days >= 0, trials_per_day > 0
api_generate_day_tables_begin ==
    /\ pc = "assigned"
    /\ learning_days' \in 1..MaxDays
    /\ reversal_days' \in 0..(MaxDays - learning_days')
    /\ n_trials' \in 1..MaxTrials
    /\ set_order' \in set_orders(animal_data)
    /\ d' = 0
    /\ day_tables' = <<>>
    /\ rows' = <<>>
    /\ pc' = "day"
    /\ UNCHANGED <<animal_data, balancer_locals, exit_arm_map, animals_today,
                   per_day_exit, call_vars, twin>>

NextApi ==
    \/ load_animals
    \/ assign_balanced_exit_arms
    \/ api_generate_day_tables_begin
    \/ begin_day
    \/ build_row
    \/ end_day
    \/ return_day_tables

SpecApi == InitApi /\ [][NextApi]_vars

\* ========================================================================
\* Properties
\* ========================================================================
ids_of(animals) == {animals[k].AnimalID : k \in 1..Len(animals)}

\* How many animals of the roster the map sends to arm a.
arm_count(map, a) == Cardinality({aid \in DOMAIN map : map[aid] = a})

assigned == pc \in {"assigned", "planned"}

\* No two rows of the roster carry the same AnimalID.
unique_ids(animals) == Cardinality(ids_of(animals)) = Len(animals)

\* C1: for a roster with unique AnimalIDs, when assign_balanced_exit_arms
\* has returned, the map has exactly one entry, an arm in {1,2,3}, for every
\* animal of the roster, and with N animals arm 1 has N div 3 (+1 if
\* N mod 3 >= 1) of them, arm 2 has N div 3 (+1 if N mod 3 >= 2) and arm 3
\* has N div 3.
C1_BalancedExitArms ==
    (assigned /\ unique_ids(animal_data)) =>
        LET N == Len(animal_data)
        IN  /\ DOMAIN exit_arm_map = ids_of(animal_data)
            /\ \A aid \in DOMAIN exit_arm_map : exit_arm_map[aid] \in {1, 2, 3}
            /\ arm_count(exit_arm_map, 1) = (N \div 3) + (IF N % 3 >= 1 THEN 1 ELSE 0)
            /\ arm_count(exit_arm_map, 2) = (N \div 3) + (IF N % 3 >= 2 THEN 1 ELSE 0)
            /\ arm_count(exit_arm_map, 3) = N \div 3

\* A roster of five in three cages whose cage of three did not get a
\* rotation of 1, 2, 3: the substitution step has acted.
C1_Witness ==
    /\ pc = "assigned"
    /\ unique_ids(animal_data)
    /\ Len(animal_data) = 5
    /\ Len(cage_names_of(animal_data)) = 3
    /\ \E i, j \in 1..Len(animal_data) :
          /\ i # j
          /\ animal_data[i].Cage = animal_data[j].Cage
          /\ exit_arm_map[animal_data[i].AnimalID] = exit_arm_map[animal_data[j].AnimalID]

\* The rows of the finished days and of the day being built.
reversal_rows ==
    UNION {Range(day_tables[k].rows) : k \in {x \in 1..Len(day_tables) :
                                                day_tables[x].type = "Reversal"}}
        \cup (IF pc = "rows" /\ ~(d < learning_days) THEN Range(rows) ELSE {})

all_rows ==
    UNION {Range(day_tables[k].rows) : k \in 1..Len(day_tables)}
        \cup (IF pc = "rows" THEN Range(rows) ELSE {})

\* C2: on a reversal day every row's ExitArm is an arm in {1,2,3} other than
\* the animal's learning-day exit arm.
C2_ReversalAvoidsLearningArm ==
    \A r \in reversal_rows :
        /\ r.ExitArm \in {1, 2, 3}
        /\ r.ExitArm # exit_arm_map[r.AnimalID]

\* A finished reversal day of three animals in two cages.
C2_Witness ==
    \E k \in 1..Len(day_tables) :
        /\ day_tables[k].type = "Reversal"
        /\ Len(day_tables[k].rows) = 3
        /\ Len(cage_names_of(animal_data)) = 2

\* The cage of each animal of a list, in order.
cage_column(animals) == ListOf(Len(animals), LAMBDA k : animals[k].Cage)

interleaved(cage_col) ==
    \E i, j, k \in 1..Len(cage_col) :
        i < j /\ j < k /\ cage_col[i] = cage_col[k] /\ cage_col[j] # cage_col[i]

\* The rows of a list that are in cage c, in order.
rows_of_cage(animals, c) == Filter(animals, LAMBDA a : a.Cage = c)

\* C3: the list returned by build_nonlearning_plan_cage_packs holds every
\* animal (row) of the roster exactly once, the animals of a cage are
\* contiguous, and within a cage they keep their roster order: the list has
\* the roster's length, each record as often as the roster has it, no cage
\* interleaved, and the rows of each cage are the roster's rows of that cage
\* in the same order.
C3_CagePacksIntact ==
    pc = "planned" =>
        LET out == ret.ordered_animals
        IN  /\ Len(out) = Len(animal_data)
            /\ \A a \in Range(animal_data) \cup Range(out) :
                  Cardinality({k \in 1..Len(out) : out[k] = a})
                      = Cardinality({k \in 1..Len(animal_data) : animal_data[k] = a})
            /\ ~interleaved(cage_column(out))
            /\ \A c \in Range(CAGES) :
                  rows_of_cage(out, c) = rows_of_cage(animal_data, c)

\* A roster that interleaves its cages, planned in another cage order.
C3_Witness ==
    /\ pc = "planned"
    /\ interleaved(cage_column(animal_data))
    /\ ret.cage_sequence # cage_names_of(animal_data)

\* Switches of an arm sequence after an incoming arm (NoArm: none).
switch_cost(colors, prev_arm) ==
    Cardinality({k \in 1..(Len(colors) - 1) : colors[k] # colors[k + 1]})
        + (IF prev_arm # NoArm /\ colors # <<>> /\ colors[1] # prev_arm THEN 1 ELSE 0)

\* Every arm sequence that gives each animal an arm other than its learning arm.
allowed_sequences(cage_animals, learning_exit_map) ==
    {s \in [1..Len(cage_animals) -> {1, 2, 3}] :
        \A k \in 1..Len(cage_animals) :
            s[k] # learning_exit_map[cage_animals[k].AnimalID]}

\* C4: for a non-empty cage plan_cage_dp returns as many colors as the cage
\* has animals, each other than the animal's learning exit arm; first and end
\* are the first and last color; cost is the number of changes between
\* neighbours plus 1 if an incoming arm is given and differs from the first.
C4_PlanIsConsistent ==
    (pc = "returned" /\ Len(call.cage_animals) > 0) =>
        LET m == Len(call.cage_animals)
        IN  /\ Len(ret.colors) = m
            /\ \A k \in 1..m :
                  /\ ret.colors[k] \in {1, 2, 3}
                  /\ ret.colors[k] # call.learning_exit_map[call.cage_animals[k].AnimalID]
            /\ ret.first = ret.colors[1]
            /\ ret.end = ret.colors[m]
            /\ ret.cost = switch_cost(ret.colors, call.prev_arm)

\* A cage of four whose plan pays the boundary and changes arm inside.
C4_Witness ==
    /\ pc = "returned"
    /\ Len(call.cage_animals) = 4
    /\ call.prev_arm # NoArm
    /\ ret.first # call.prev_arm
    /\ ret.end # ret.first

\* C5: the cost plan_cage_dp returns is the least switch cost of any arm
\* sequence that gives each animal one of its two allowed arms.
C5_PlanCostIsMinimal ==
    pc = "returned" =>
        \A s \in allowed_sequences(call.cage_animals, call.learning_exit_map) :
            ret.cost <= switch_cost(s, call.prev_arm)

\* A cage of four where no sequence is free: the least cost is 2 or more.
C5_Witness ==
    /\ pc = "returned"
    /\ Len(call.cage_animals) = 4
    /\ call.prev_arm # NoArm
    /\ ret.cost >= 2

\* The day's exit arms in running order.
day_arms(plan) ==
    ListOf(Len(plan.ordered_animals),
           LAMBDA k : plan.per_animal_exit[plan.ordered_animals[k].AnimalID])

\* Switches over a whole day, the one from the last arm back to the first
\* included.
day_switches(arms) ==
    Cardinality({k \in 1..(Len(arms) - 1) : arms[k] # arms[k + 1]})
        + (IF arms # <<>> /\ arms[Len(arms)] # arms[1] THEN 1 ELSE 0)

\* Every day a reordering of whole cages can produce: the cages in any
\* order, each animal on an arm other than its learning exit arm.
RECURSIVE concat_cages(_, _)
concat_cages(cages, order) ==
    IF order = <<>> THEN <<>>
    ELSE cages[order[1]] \o concat_cages(cages, Tail(order))

alternative_days(roster, learning_exit_map) ==
    LET cages == group_animals_by_cage_in_order(roster)
    IN  UNION {{ListOf(Len(roster), LAMBDA k : s[k]) :
                    s \in allowed_sequences(concat_cages(cages, order), learning_exit_map)} :
               order \in Shuffles(cage_names_of(roster))}

\* C6 as claimed: no reordering of whole cages with allowed exit arms has
\* fewer switches over the day, wrap-around included, than the one returned.
C6_GloballyMinimal ==
    pc = "planned" =>
        \A alt \in alternative_days(animal_data, exit_arm_map) :
            day_switches(day_arms(ret)) <= day_switches(alt)

\* C6 as amended: the returned arrangement is the cheapest of the greedy
\* candidates (one per day-start arm and first cage; cost = chosen per-cage
\* plan costs plus the wrap-around penalty against the start arm), and for a
\* roster with unique AnimalIDs the switches over its day, wrap-around
\* included, are at most that cost.
C6_BestGreedyCandidate ==
    pc = "planned" =>
        LET plans == plans_of(animal_data, exit_arm_map)
        IN  /\ \A start_arm \in {1, 2, 3}, first_cage \in Range(cage_names_of(animal_data)) :
                  ret.best_total
                      <= greedy_candidate(plans, set_order, start_arm, first_cage).total_cost
            /\ unique_ids(animal_data)
                  => day_switches(day_arms(ret)) <= ret.best_total

\* Three cages planned, with candidates of different cost to choose from.
C6_Witness ==
    /\ pc = "planned"
    /\ Len(cage_names_of(animal_data)) = 3
    /\ LET plans == plans_of(animal_data, exit_arm_map)
       IN  \E start_arm \in {1, 2, 3}, first_cage \in Range(cage_names_of(animal_data)) :
              ret.best_total
                  < greedy_candidate(plans, set_order, start_arm, first_cage).total_cost

\* The naive arrangement: the cages one after the other in roster order,
\* chaining the precomputed plans from a day-start arm, plus wrap-around.
RECURSIVE naive_chain(_, _, _, _)
naive_chain(plans, cage_names, k, prev_end) ==
    IF k > Len(cage_names) THEN [cost |-> 0, end |-> prev_end]
    ELSE LET plan == plans[cage_names[k]][prev_end]
             rest == naive_chain(plans, cage_names, k + 1, plan.end)
         IN  [cost |-> plan.cost + rest.cost, end |-> rest.end]

naive_cost(roster, learning_exit_map, start_arm) ==
    LET run == naive_chain(plans_of(roster, learning_exit_map),
                           cage_names_of(roster), 1, start_arm)
    IN  run.cost + (IF run.end = start_arm THEN 0 ELSE 1)

\* C7 as claimed: the chosen total cost is at most the naive cost, for every
\* day-start arm and every roster.
C7_NeverWorseThanNaive ==
    pc = "planned" =>
        \A start_arm \in {1, 2, 3} :
            ret.best_total <= naive_cost(animal_data, exit_arm_map, start_arm)

\* C7 as amended: the same for every roster of at most two cages.
C7_NeverWorseThanNaiveTwoCages ==
    (pc = "planned" /\ Len(cage_names_of(animal_data)) <= 2) =>
        \A start_arm \in {1, 2, 3} :
            ret.best_total <= naive_cost(animal_data, exit_arm_map, start_arm)

\* Two cages of three, planned strictly cheaper than a naive arrangement.
C7_Witness ==
    /\ pc = "planned"
    /\ cage_column(animal_data) = <<CAGES[1], CAGES[1], CAGES[1],
                                    CAGES[2], CAGES[2], CAGES[2]>>
    /\ \E start_arm \in {1, 2, 3} :
          ret.best_total < naive_cost(animal_data, exit_arm_map, start_arm)

\* C8: generate_pseudorandom_sequence returns exactly n_trials values, each
\* armA or armB, the two counts differing by at most 1, from the search and
\* from the fallback alike.
C8_BalancedSequence ==
    pc \in {"found", "fallback"} =>
        LET a == Count(ret, call.armA)
            b == Count(ret, call.armB)
        IN  /\ Len(ret) = call.n_trials
            /\ \A k \in 1..Len(ret) : ret[k] \in {call.armA, call.armB}
            /\ a - b \in {-1, 0, 1}

\* The fallback with a single trial.
C8_Witness ==
    /\ pc = "fallback"
    /\ call.n_trials = 1
    /\ Len(ret) = 1

no_triple(seq) ==
    \A i \in 3..Len(seq) : ~(seq[i] = seq[i - 1] /\ seq[i - 1] = seq[i - 2])

first_ok(seq, avoid_first) ==
    seq = <<>> \/ avoid_first = NoArm \/ seq[1] # avoid_first

\* The orders of the pool with no three equal in a row and an allowed first.
valid_orders(items, avoid_first) ==
    {p \in Shuffles(items) : no_triple(p) /\ first_ok(p, avoid_first)}

\* C9: if some order of the pool has no three equal values in a row and a
\* first element other than avoid_first, the result is such an order; the
\* pool is returned as it is only when there is none.
C9_SearchIsComplete ==
    pc \in {"found", "fallback"} =>
        LET good == valid_orders(pool, call.avoid_first)
        IN  /\ good # {} => ret \in good
            /\ (pc = "fallback" /\ ret # <<>>) => good = {}

\* Five trials, a pool that breaks the rules as shuffled, a result that
\* does not.
C9_Witness ==
    /\ pc = "found"
    /\ call.n_trials = 5
    /\ ~no_triple(pool)
    /\ ~first_ok(pool, call.avoid_first)
    /\ no_triple(ret) /\ first_ok(ret, call.avoid_first)

\* C10: every row holds exactly trials_per_day start arms, each one of the
\* two arms in {1,2,3} other than the row's ExitArm.
C10_StartArmsAvoidExit ==
    \A r \in all_rows :
        /\ Len(r.trials) = n_trials
        /\ \A k \in 1..Len(r.trials) :
              r.trials[k] \in {1, 2, 3} \ {r.ExitArm}

\* A learning day and a reversal day of three rows, two trials each.
C10_Witness ==
    /\ pc = "done"
    /\ n_trials = 2
    /\ Len(day_tables) = 2
    /\ day_tables[1].type = "Learning" /\ Len(day_tables[1].rows) = 3
    /\ day_tables[2].type = "Reversal" /\ Len(day_tables[2].rows) = 3

\* The AnimalID column and the ExitArm column of a list of rows.
id_column(rs) == ListOf(Len(rs), LAMBDA k : rs[k].AnimalID)

exit_column(rs) == ListOf(Len(rs), LAMBDA k : rs[k].ExitArm)

\* C11: the tables are numbered in day order, the first learning_days of
\* them are Learning and all later ones Reversal, each has one row per
\* roster animal, and generate_day_tables returns exactly
\* learning_days + reversal_days of them (none when that sum is 0).
C11_DayTablesInOrder ==
    /\ \A k \in 1..Len(day_tables) :
          /\ day_tables[k].day = k
          /\ day_tables[k].type = (IF k <= learning_days THEN "Learning" ELSE "Reversal")
          /\ Len(day_tables[k].rows) = Len(animal_data)
          /\ Range(id_column(day_tables[k].rows)) = ids_of(animal_data)
    /\ pc = "done" => Len(day_tables) = learning_days + reversal_days

\* One learning day followed by one reversal day, two animals.
C11_Witness ==
    /\ pc = "done"
    /\ learning_days = 1 /\ reversal_days = 1
    /\ Len(animal_data) = 2
    /\ Len(day_tables) = 2
    /\ day_tables[2].type = "Reversal"

\* The rows of the learning days, finished or being built.
learning_row_lists ==
    {day_tables[k].rows : k \in {x \in 1..Len(day_tables) :
                                    day_tables[x].type = "Learning"}}
        \cup (IF pc = "rows" /\ d < learning_days THEN {rows} ELSE {})

\* C12: on every learning day the rows are in roster order and each row's
\* ExitArm is the animal's entry in the exit arm map, whatever days have
\* been generated since.
C12_LearningDaysFollowRoster ==
    \A rs \in learning_row_lists :
        \A i \in 1..Len(rs) :
            /\ rs[i].AnimalID = animal_data[i].AnimalID
            /\ rs[i].Cage = animal_data[i].Cage
            /\ rs[i].ExitArm = exit_arm_map[animal_data[i].AnimalID]

\* A learning day kept in roster order although the reversal day after it
\* was reordered.
C12_Witness ==
    /\ pc = "done"
    /\ learning_days = 1 /\ reversal_days = 1
    /\ Len(day_tables) = 2
    /\ id_column(day_tables[1].rows) = id_column(animal_data)
    /\ id_column(day_tables[2].rows) # id_column(animal_data)

\* C13 as claimed: two generations with the same roster, the same three
\* integers and the same explicit seed end with identical day tables: the
\* same row order, exit arms and start-arm sequences.
C13_SameSeedSameTables ==
    (pc = "done" /\ twin # <<>>) => twin.day_tables = day_tables

\* A cyclic 1 -> 2 -> 3 sequence from some offset.
is_rotation(seq) ==
    \E offset \in 0..2 :
        \A j \in 1..Len(seq) : seq[j] = (((j - 1) + offset) % 3) + 1

\* The exit arms the map gives to the animals of one group.
group_arms(map, key) ==
    {aid \in DOMAIN map :
        \E k \in 1..Len(animal_data) :
            animal_data[k].AnimalID = aid /\ group_key(animal_data[k]) = key}

group_arm_count(map, key, a) ==
    Cardinality({aid \in group_arms(map, key) : map[aid] = a})

\* C14 as claimed: the arms given to every group are a cyclic rotation from
\* some offset, so in the returned map the counts of arms 1, 2 and 3 within
\* a group differ by at most 1.
C14_GroupsAreRotations ==
    /\ (pc = "adjust" /\ Len(adjusted) = Len(best_seq)) => is_rotation(adjusted)
    /\ assigned =>
          \A key \in Range(group_keys_of(animal_data)) :
              \A a, b \in ArmSet :
                  group_arm_count(exit_arm_map, key, a)
                      - group_arm_count(exit_arm_map, key, b) <= 1

\* C14 as amended: the sequence chosen for a group is a cyclic rotation;
\* an animal is given another arm than the rotation's only where the
\* rotation's arm has no quota left; the first group processed gets its
\* rotation unchanged.
C14_RotationUnlessQuotaSpent ==
    pc = "adjust" =>
        /\ is_rotation(best_seq)
        /\ Len(best_seq) = Len(groups[gi])
        /\ \A k \in 1..Len(adjusted) :
              adjusted[k] # best_seq[k] => remaining[best_seq[k]] = 0
        /\ gi = 1 => adjusted = SubSeq(best_seq, 1, Len(adjusted))

\* A later group of at most three animals, two of them given the same arm
\* because the rotation's arm had no quota left.
C14_Witness ==
    /\ pc = "adjust"
    /\ gi > 1
    /\ Len(adjusted) = Len(best_seq)
    /\ Len(adjusted) <= 3
    /\ \E i, j \in 1..Len(adjusted) : i # j /\ adjusted[i] = adjusted[j]

\* C15 as claimed: a request with an empty animal list is rejected before
\* any computation: no roster is put in its place, no exit arm map and no
\* day table is produced.
C15_EmptyRequestRejected ==
    (pc # "request" /\ call.animals = <<>>) =>
        /\ pc = "rejected"
        /\ animal_data = <<>>
        /\ exit_arm_map = <<>>
        /\ day_tables = <<>>

\* C16: in assign_balanced_exit_arms the remaining quota of every arm is
\* never negative; whenever an animal is still to be given an arm, some arm
\* has quota left, so the substitution finds one; and all three quotas are
\* 0 when the function has returned.
C16_QuotaNeverNegative ==
    /\ \A a \in ArmSet : remaining[a] >= 0
    /\ (pc = "adjust" /\ Len(adjusted) < Len(best_seq)) =>
          \E a \in substitute_arms(remaining) : remaining[a] > 0
    /\ assigned => \A a \in ArmSet : remaining[a] = 0

\* The substitution has just given an animal another arm than the
\* rotation's, and the group has more animals to go.
C16_Witness ==
    /\ pc = "adjust"
    /\ Len(adjusted) >= 1
    /\ Len(adjusted) < Len(best_seq)
    /\ adjusted[Len(adjusted)] # best_seq[Len(adjusted)]

\* C17: with two or more trials the search always succeeds: the fallback is
\* never taken, the result has no three equal values in a row and does not
\* start with avoid_first. Consequently in every row of a reversal day with
\* two or more trials per day the trials have no three equal values in a
\* row and T1 is not the animal's learning exit arm; a reversal row whose
\* T1 is the learning exit arm occurs only with one trial per day.
C17_NoFallbackFromTwoTrials ==
    /\ (pc \in {"found", "fallback"} /\ call.n_trials >= 2) =>
          /\ pc = "found"
          /\ no_triple(ret)
          /\ ret[1] # call.avoid_first
    /\ \A r \in reversal_rows :
          /\ n_trials >= 2 =>
                /\ no_triple(r.trials)
                /\ r.trials[1] # exit_arm_map[r.AnimalID]
          /\ r.trials[1] = exit_arm_map[r.AnimalID] => n_trials = 1

\* A reversal day of one trial per day with a row whose T1 is the animal's
\* learning exit arm: the shuffled pool was that arm alone, the search
\* found nothing and the fallback returned the pool.
C17_Witness ==
    /\ n_trials = 1
    /\ \E r \in reversal_rows :
          /\ r.trials[1] = exit_arm_map[r.AnimalID]
          /\ backtrack(<<>>, r.trials, exit_arm_map[r.AnimalID]) \in {<<>>, <<NoArm>>}

\* The generator called with three trials, two of them on the arm to avoid,
\* that arm first in the shuffled pool: the search had to move it.
C17_SearchActed ==
    /\ pc = "found"
    /\ call.n_trials = 3
    /\ Count(pool, call.avoid_first) = 2
    /\ pool[1] = call.avoid_first
    /\ ret # pool

\* A reversal row of two trials per day: T1 is the arm that is neither the
\* day's exit arm nor the learning exit arm, although one of the two
\* shuffles of the pool starts with the learning exit arm.
C17_ReversalRowOfTwoTrials ==
    /\ n_trials = 2
    /\ \E r \in reversal_rows :
          /\ r.trials = <<r.trials[1], exit_arm_map[r.AnimalID]>>
          /\ <<r.trials[2], r.trials[1]>>
                \in shuffled_pools(2, other_arms(r.ExitArm)[1], other_arms(r.ExitArm)[2])

\* The finished reversal days.
reversal_tables ==
    {day_tables[k] : k \in {x \in 1..Len(day_tables) :
                               day_tables[x].type = "Reversal"}}

\* C18: within one schedule all reversal days list the animals in the same
\* order and give every animal the same exit arm.
C18_ReversalDaysAlike ==
    \A s, t \in reversal_tables :
        /\ id_column(s.rows) = id_column(t.rows)
        /\ exit_column(s.rows) = exit_column(t.rows)

\* Two reversal days of three animals in several cages, reordered against
\* the roster, that differ in their start arms only.
C18_Witness ==
    /\ pc = "done"
    /\ reversal_days = 2
    /\ Len(animal_data) = 3
    /\ id_column(day_tables[1].rows) # id_column(animal_data)
    /\ day_tables[1].rows # day_tables[2].rows

====
